---- MODULE Spec2Model ----
(***************************************************************************)
(* A model of the three migration scripts of fabric-cicd:                  *)
(*   deployment-pipelines.py  (script = "pipelines")                       *)
(*   notebooks.py             (script = "notebooks")                       *)
(*   folder-structure.py      (script = "folders", the `source` command)   *)
(* One run of one script is one behaviour of Spec.  The remote platform    *)
(* and the local disk are inputs drawn in Init; every HTTP response is a   *)
(* nondeterministic choice of the action that issues the request.          *)
(* SpecEnsure drives the two folder-path ensurers alone, call after call   *)
(* on one memo.                                                            *)
(***************************************************************************)
EXTENDS Naturals, Sequences, FiniteSets, TLC

VARIABLES
    script,                  \* which of the three scripts this run executes
    pc,                      \* position of the run in the script
    world,                   \* inputs: local disk, target and source workspace
    items,                   \* folders: `items`; pipelines: `items` of create_or_update_pipeline
    existing_folders,        \* the memo: path string -> folder id
    target_items,            \* notebooks: display name -> id (fetch_items)
    notebooks,               \* discovered directories (find_notebooks / the walk's matches)
    idx,                     \* loop position in the discovered list / the walk
    cur,                     \* locals of the loop body for the artifact in work
    calls,                   \* every mutating request issued so far, in order
    created,                 \* number of folders the remote has created in this run
    source_items,            \* pipelines: fetch_workspace_items(source)
    target_notebook_mapping, \* pipelines: name -> <<id, workspaceId>>
    pipeline_content,        \* pipelines: decoded definition in work
    changes_made,            \* pipelines: the modified flag
    has_trident_notebook,    \* pipelines: a TridentNotebook activity was seen
    temp_files,              \* pipelines: folders that hold a temp.json
    ens,                     \* SpecEnsure: the ensurer calls made so far
    faults                   \* requests and file operations that have failed so far

vars == <<script, pc, world, items, existing_folders, target_items, notebooks, idx,
          cur, calls, created, source_items, target_notebook_mapping,
          pipeline_content, changes_made, has_trident_notebook, temp_files, ens,
          faults>>

-----------------------------------------------------------------------------
(* Python values *)

\* Python's None, and the value of a missing dictionary key read with .get()
None == "None"

\* `if x:` on a string-or-None value
Truthy(v) == v # None /\ v # ""

\* a dictionary with no entries
EmptyDict == [k \in {} |-> None]

\* d.get(k)
Get(d, k) == IF k \in DOMAIN d THEN d[k] ELSE None

\* d[k] = v
Put(d, k, v) == [x \in DOMAIN d \cup {k} |-> IF x = k THEN v ELSE d[x]]

Last(s) == s[Len(s)]

\* [f(x) for x in s if keep(x)], order kept
RECURSIVE SelectIdx(_, _, _)
SelectIdx(s, keep(_), i) ==
    IF i > Len(s) THEN <<>>
    ELSE (IF keep(s[i]) THEN <<s[i]>> ELSE <<>>) \o SelectIdx(s, keep, i + 1)

Filter(s, keep(_)) == SelectIdx(s, keep, 1)

\* {key(x): val(x) for x in s}: a later entry with the same key replaces an earlier one
RECURSIVE DictOf(_, _, _, _)
DictOf(s, key(_), val(_), n) ==
    IF n = 0 THEN EmptyDict
    ELSE Put(DictOf(s, key, val, n - 1), key(s[n]), val(s[n]))

-----------------------------------------------------------------------------
(* Strings: paths and names.  A string is a TLA+ string; split and the      *)
(* prefix and suffix tests are computed against concatenation over the      *)
(* finite alphabet of segments the inputs are built from.                   *)

Sep == "/"

\* path segments that occur in the inputs ("" arises from "a//b" and "/a")
Segments == {"", "a", "b", ".h"}

MaxSegments == 3

RECURSIVE JoinWith(_, _)
JoinWith(parts, sep) ==
    IF Len(parts) = 1 THEN parts[1]
    ELSE JoinWith(SubSeq(parts, 1, Len(parts) - 1), sep) \o sep \o parts[Len(parts)]

SegmentLists == UNION {[1..n -> Segments] : n \in 1..MaxSegments}

\* s.split(sep)
Split(s, sep) == CHOOSE parts \in SegmentLists : JoinWith(parts, sep) = s

\* what may follow the first character, or precede a suffix, of a name of the inputs
NameRests == {"", "a", "b", "h", "P1", "P2", "docs"}

\* s.startswith(prefix)
StartsWith(s, prefix) == \E r \in NameRests : s = prefix \o r

\* s.endswith(suffix)
EndsWith(s, suffix) == \E r \in NameRests : s = r \o suffix

\* s.replace(suffix, "") for a name that ends with the suffix and holds it once
StripSuffix(s, suffix) ==
    IF EndsWith(s, suffix) THEN CHOOSE r \in NameRests : s = r \o suffix ELSE s

\* os.path.basename(os.path.join(top, rel)); the scan root itself is not hidden
RootName == "repo"
Basename(rel) == IF rel = "" THEN RootName ELSE Last(Split(rel, Sep))

\* os.path.join(a, b) for a relative b
OsPathJoin(a, b) == IF a = "" THEN b ELSE a \o Sep \o b

-----------------------------------------------------------------------------
(* HTTP *)

\* a response: 2xx, a non-success status, or no response at all (the
\* request raised requests.exceptions.ConnectionError)
Outcomes == {"ok", "http", "net"}

\* identifiers the remote assigns to the folders it creates, in order
FreshIds == <<"f-n1", "f-n2", "f-n3", "f-n4", "f-n5", "f-n6", "f-n7", "f-n8", "f-n9">>

\* one mutating request as it was issued: the operation, the artifact or
\* folder it names, the identifier in its URL, the parentFolderId of its
\* body, the keys of its JSON body, the local path of the artifact it
\* serves, the memo key of a folder creation, the response
Call(op, name, id, parent, fields, path, key, res) ==
    [op |-> op, name |-> name, id |-> id, parent |-> parent, fields |-> fields,
     path |-> path, key |-> key, res |-> res]

\* the requests of a list that were not answered with success
RECURSIVE Failed(_)
Failed(log) ==
    IF log = <<>> THEN 0
    ELSE (IF log[1].res = "ok" THEN 0 ELSE 1) + Failed(Tail(log))

Fault(r) == IF r = "ok" THEN 0 ELSE 1

-----------------------------------------------------------------------------
(* The target workspace as GET /workspaces/{id}/items lists it *)

Item(id, name, type, parent) ==
    [id |-> id, displayName |-> name, type |-> type, workspaceId |-> "ws-2",
     parentFolderId |-> parent]

\* target workspaces of the notebook and folder scripts: empty; notebooks
\* only (N2 also names a Lakehouse); one top-level folder; a nested folder a/b
TargetWorlds ==
    { <<>>,
      << Item("nb-0", "N0", "Notebook", None), Item("nb-1", "N1", "Notebook", None),
         Item("nb-2", "N2", "Notebook", None), Item("lh-2", "N2", "Lakehouse", None),
         Item("nb-3", "N3", "Notebook", None) >>,
      << Item("nb-1", "N1", "Notebook", None), Item("f-1", "a", "Folder", None) >>,
      << Item("nb-1", "N1", "Notebook", None), Item("nb-2", "N2", "Notebook", None),
         Item("f-1", "a", "Folder", None), Item("f-2", "b", "Folder", "f-1") >> }

IsFolder(item) == item.type = "Folder"
DisplayNameOf(item) == item.displayName
IdOf(item) == item.id

\* {folder["displayName"]: folder["id"] for folder in folders}
FolderDict(itemList) ==
    LET folders == Filter(itemList, IsFolder)
    IN  DictOf(folders, DisplayNameOf, IdOf, Len(folders))

-----------------------------------------------------------------------------
(* The folder-path ensurers.  resp[i] is the remote's response to the       *)
(* creation request for segment i, should one be issued; n counts the       *)
(* folders the remote has created.  The result holds the returned id, the   *)
(* memo as the call left it, the requests issued and whether the call       *)
(* raised instead of returning.                                             *)

EnsureResult(ret, raised, memo, log, n) ==
    [ret |-> ret, raised |-> raised, memo |-> memo, log |-> log, created |-> n]

\* a mutant of create_folder: the folder is asked for at the top level
create_folder_at_root(folder_name, parent_folder_id, key, r, n) ==
    [call |-> Call("createFolder", folder_name, None, None, {"displayName"},
                   None, key, r),
     ret  |-> IF r = "ok" THEN FreshIds[n + 1] ELSE None,
     raised |-> r = "net"]

\* folder-structure.py create_folder: the request and what the function returns
create_folder(folder_name, parent_folder_id, key, r, n) ==
    [call |-> Call("createFolder", folder_name, None,
                   IF Truthy(parent_folder_id) THEN parent_folder_id ELSE None,
                   {"displayName"} \cup
                       (IF Truthy(parent_folder_id) THEN {"parentFolderId"} ELSE {}),
                   None, key, r),
     ret  |-> IF r = "ok" THEN FreshIds[n + 1] ELSE None,
     raised |-> r = "net"]

\* a creation that was not recorded
record_nothing(memo, current_path, folder_id) == memo

\* existing_folders[current_path] = new_folder_id
record_folder(memo, current_path, folder_id) == Put(memo, current_path, folder_id)

RECURSIVE ensure_loop(_, _, _, _, _, _, _, _)
ensure_loop(parts, i, current_path, parent_id, memo, resp, n, log) ==
    IF i > Len(parts) THEN EnsureResult(parent_id, FALSE, memo, log, n)
    ELSE LET part == parts[i] IN
         IF part = "" THEN
            ensure_loop(parts, i + 1, current_path, parent_id, memo, resp, n, log)
         ELSE
            LET cp == IF i = 1 THEN part ELSE current_path \o "/" \o part IN
            IF cp \in DOMAIN memo THEN
               ensure_loop(parts, i + 1, cp, memo[cp], memo, resp, n, log)
            ELSE
               LET c == create_folder(part, parent_id, cp, resp[i], n) IN
               IF c.raised THEN EnsureResult(None, TRUE, memo, Append(log, c.call), n)
               ELSE IF Truthy(c.ret) THEN
                  ensure_loop(parts, i + 1, cp, c.ret, record_folder(memo, cp, c.ret), resp,
                              n + 1, Append(log, c.call))
               ELSE EnsureResult(None, FALSE, memo, Append(log, c.call), n)

\* folder-structure.py ensure_folder_path
ensure_folder_path(folder_path, memo, resp, n) ==
    IF folder_path = "" THEN EnsureResult(None, FALSE, memo, <<>>, n)
    ELSE ensure_loop(Split(folder_path, "/"), 1, "", None, memo, resp, n, <<>>)

\* notebooks.py create_folder_structure, the loop over the path's parts
RECURSIVE structure_loop(_, _, _, _, _, _, _, _)
structure_loop(parts, i, current_path, parent_id, memo, resp, n, log) ==
    IF i > Len(parts) THEN EnsureResult(parent_id, FALSE, memo, log, n)
    ELSE LET part == parts[i] IN
         IF part = "" THEN
            structure_loop(parts, i + 1, current_path, parent_id, memo, resp, n, log)
         ELSE
            LET cp == IF i = 1 THEN part ELSE OsPathJoin(current_path, part)
                c  == Call("createFolder", part, None,
                           IF Truthy(parent_id) THEN parent_id ELSE None,
                           {"displayName"} \cup
                               (IF Truthy(parent_id) THEN {"parentFolderId"} ELSE {}),
                           None, cp, resp[i])
            IN
            IF cp \in DOMAIN memo THEN
               structure_loop(parts, i + 1, cp, memo[cp], memo, resp, n, log)
            ELSE IF resp[i] = "net" THEN
               EnsureResult(None, TRUE, memo, Append(log, c), n)
            ELSE IF resp[i] = "ok" THEN
               structure_loop(parts, i + 1, cp, FreshIds[n + 1],
                              record_folder(memo, cp, FreshIds[n + 1]), resp, n + 1,
                              Append(log, c))
            ELSE EnsureResult(None, FALSE, memo, Append(log, c), n)

\* notebooks.py create_folder_structure
create_folder_structure(folder_path, memo, resp, n) ==
    IF folder_path = "" THEN EnsureResult(None, FALSE, memo, <<>>, n)
    ELSE structure_loop(Split(folder_path, Sep), 1, "", None, memo, resp, n, <<>>)

\* the requests of an ensurer call, each marked with the path it was called for
For(folder_path, r) ==
    [r EXCEPT !.log = [j \in 1..Len(r.log) |-> [r.log[j] EXCEPT !.path = folder_path]]]

\* the ensurer of the script in hand
Ensure(which, folder_path, memo, resp, n) ==
    For(folder_path,
        IF which = "folders" THEN ensure_folder_path(folder_path, memo, resp, n)
        ELSE create_folder_structure(folder_path, memo, resp, n))

Responses(folder_path) ==
    [1..(IF folder_path = "" THEN 0 ELSE Len(Split(folder_path, Sep))) -> Outcomes]

-----------------------------------------------------------------------------
(* The local disk of the notebook and folder scripts: the directories       *)
(* os.walk visits, top down, each with its files and what json.load of its  *)
(* .platform file gives.                                                    *)

Dir(rel, files, valid, displayName) ==
    [rel |-> rel, files |-> files, valid |-> valid, displayName |-> displayName]

Markers == {".platform", "notebook-content.py"}

WalkPaths == <<"", "a", "a/b", ".h">>

\* what a directory may hold: nothing; a notebook; a notebook whose sidecar
\* has no displayName; one marker file only; a sidecar that is not JSON
DirChoices(i) ==
    LET rel == WalkPaths[i] IN
    {Dir(rel, {}, TRUE, None)} \cup
    CASE i = 1 -> {Dir(rel, Markers, TRUE, "N0")}
      [] i = 2 -> {Dir(rel, Markers, TRUE, "N1"), Dir(rel, {".platform"}, TRUE, "N1"),
                   Dir(rel, Markers, TRUE, None)}
      [] i = 3 -> {Dir(rel, Markers, TRUE, "N2"), Dir(rel, {"notebook-content.py"}, TRUE, None),
                   Dir(rel, Markers, FALSE, None)}
      [] OTHER -> {Dir(rel, Markers, TRUE, "N3")}

\* how many directories of a disk hold files at all
MaxArtifactDirs == 2

Disks ==
    {d \in [1..Len(WalkPaths) -> UNION {DirChoices(i) : i \in 1..Len(WalkPaths)}] :
        /\ \A i \in 1..Len(WalkPaths) : d[i] \in DirChoices(i)
        /\ Cardinality({i \in 1..Len(WalkPaths) : d[i].files # {}}) <= MaxArtifactDirs}

-----------------------------------------------------------------------------
(* notebooks.py *)

IsNotebook(item) == item.type = "Notebook"

\* fetch_items: {item["displayName"]: item["id"] ... if item.get("type") == item_type}
fetch_items(value) ==
    LET found == Filter(value, IsNotebook)
    IN  DictOf(found, DisplayNameOf, IdOf, Len(found))

\* the test of find_notebooks on one directory of the walk
HasBothMarkers(d) == ".platform" \in d.files /\ "notebook-content.py" \in d.files

\* find_notebooks
find_notebooks(disk) == Filter(disk, HasBothMarkers)

\* __main__: target_notebooks = fetch_items(TARGET_WORKSPACE_ID, "Notebook");
\* raise_for_status and a failed connection both raise, and nothing catches
NbFetchItems ==
    /\ script = "notebooks" /\ pc = "start"
    /\ \E r \in Outcomes :
         /\ faults' = faults + Fault(r)
         /\ IF r = "ok"
            THEN target_items' = fetch_items(world.target) /\ pc' = "discover"
            ELSE target_items' = target_items /\ pc' = "aborted"
    /\ UNCHANGED <<script, world, items, existing_folders, notebooks, idx, cur, calls,
                   created, source_items, target_notebook_mapping, pipeline_content,
                   changes_made, has_trident_notebook, temp_files, ens>>

\* process_notebook_migration: notebooks = find_notebooks(...)
NbDiscover ==
    /\ script = "notebooks" /\ pc = "discover"
    /\ notebooks' = find_notebooks(world.disk)
    /\ pc' = "fetch_folders"
    /\ UNCHANGED <<script, world, items, existing_folders, target_items, idx, cur, calls,
                   created, source_items, target_notebook_mapping, pipeline_content,
                   changes_made, has_trident_notebook, temp_files, ens, faults>>

\* process_notebook_migration: existing_folders = fetch_folders(workspace_id)
NbFetchFolders ==
    /\ script = "notebooks" /\ pc = "fetch_folders"
    /\ \E r \in Outcomes :
         /\ faults' = faults + Fault(r)
         /\ IF r = "ok"
            THEN existing_folders' = FolderDict(world.target) /\ pc' = "loop"
            ELSE existing_folders' = existing_folders /\ pc' = "aborted"
    /\ UNCHANGED <<script, world, items, target_items, notebooks, idx, cur, calls,
                   created, source_items, target_notebook_mapping, pipeline_content,
                   changes_made, has_trident_notebook, temp_files, ens>>

\* loop body, up to the encoding of the two files: the sidecar is read with
\* json.load outside any try; a directory without displayName is skipped
NbReadMeta ==
    /\ script = "notebooks" /\ pc = "loop" /\ idx <= Len(notebooks)
    /\ LET d == notebooks[idx] IN
       IF ~d.valid THEN pc' = "aborted" /\ UNCHANGED <<idx, cur>>
       ELSE IF ~Truthy(d.displayName) THEN idx' = idx + 1 /\ UNCHANGED <<pc, cur>>
       ELSE /\ cur' = [display_name |-> d.displayName, rel_path |-> d.rel,
                       parent_folder_id |-> None]
            /\ pc' = "folders" /\ idx' = idx
    /\ UNCHANGED <<script, world, items, existing_folders, target_items, notebooks, calls,
                   created, source_items, target_notebook_mapping, pipeline_content,
                   changes_made, has_trident_notebook, temp_files, ens, faults>>

\* loop body: parent_folder_id = create_folder_structure(...) if rel_path
NbEnsureFolders ==
    /\ script = "notebooks" /\ pc = "folders"
    /\ \E resp \in Responses(cur.rel_path) :
         LET r == Ensure("notebooks", cur.rel_path, existing_folders, resp, created) IN
         /\ existing_folders' = r.memo
         /\ created' = r.created
         /\ faults' = faults + Failed(r.log)
         /\ calls' = calls \o r.log
         /\ cur' = [cur EXCEPT !.parent_folder_id = r.ret]
         /\ pc' = IF r.raised THEN "aborted" ELSE "upsert"
    /\ UNCHANGED <<script, world, items, target_items, notebooks, idx, source_items,
                   target_notebook_mapping, pipeline_content, changes_made,
                   has_trident_notebook, temp_files, ens>>

\* the decision of process_notebook_migration: `if display_name in target_items`
NbChoosesUpdate(display_name, inventory) == display_name \in DOMAIN inventory

\* the request of the loop body for one notebook
NbRequest(c, inventory, r) ==
    LET base == {"definition"} \cup
                (IF Truthy(c.parent_folder_id) THEN {"parentFolderId"} ELSE {})
        parent == IF Truthy(c.parent_folder_id) THEN c.parent_folder_id ELSE None
    IN  IF NbChoosesUpdate(c.display_name, inventory)
        THEN Call("updateItem", c.display_name, inventory[c.display_name], parent,
                  base, c.rel_path, None, r)
        ELSE Call("createItem", c.display_name, None, parent,
                  base \cup {"name"}, c.rel_path, None, r)

\* loop body: payload, create or update, the report of the response
NbUpsert ==
    /\ script = "notebooks" /\ pc = "upsert"
    /\ \E r \in Outcomes :
         /\ faults' = faults + Fault(r)
         /\ calls' = Append(calls, NbRequest(cur, target_items, r))
         /\ IF r = "net" THEN pc' = "aborted" /\ idx' = idx
            ELSE pc' = "loop" /\ idx' = idx + 1
    /\ UNCHANGED <<script, world, items, existing_folders, target_items, notebooks, cur,
                   created, source_items, target_notebook_mapping, pipeline_content,
                   changes_made, has_trident_notebook, temp_files, ens>>

NbFinish ==
    /\ script = "notebooks" /\ pc = "loop" /\ idx > Len(notebooks)
    /\ pc' = "done"
    /\ UNCHANGED <<script, world, items, existing_folders, target_items, notebooks, idx,
                   cur, calls, created, source_items, target_notebook_mapping,
                   pipeline_content, changes_made, has_trident_notebook, temp_files, ens, faults>>

-----------------------------------------------------------------------------
(* folder-structure.py, the `source` command *)

\* list_workspace_items: a status other than 200 gives []; the request
\* itself is outside any try
list_workspace_items(value, r) == IF r = "ok" THEN value ELSE <<>>

\* list_workspace_folders
list_workspace_folders(value, r) == FolderDict(list_workspace_items(value, r))

FsListItems ==
    /\ script = "folders" /\ pc = "start"
    /\ \E r \in Outcomes :
         /\ faults' = faults + Fault(r)
         /\ IF r = "net" THEN pc' = "aborted" /\ items' = items
            ELSE pc' = "list_folders" /\ items' = list_workspace_items(world.target, r)
    /\ UNCHANGED <<script, world, existing_folders, target_items, notebooks, idx, cur,
                   calls, created, source_items, target_notebook_mapping,
                   pipeline_content, changes_made, has_trident_notebook, temp_files, ens>>

FsListFolders ==
    /\ script = "folders" /\ pc = "list_folders"
    /\ \E r \in Outcomes :
         /\ faults' = faults + Fault(r)
         /\ IF r = "net" THEN pc' = "aborted" /\ existing_folders' = existing_folders
            ELSE /\ pc' = "loop"
                 /\ existing_folders' = list_workspace_folders(world.target, r)
    /\ UNCHANGED <<script, world, items, target_items, notebooks, idx, cur, calls,
                   created, source_items, target_notebook_mapping, pipeline_content,
                   changes_made, has_trident_notebook, temp_files, ens>>

\* `if os.path.basename(root).startswith('.')`
IsHidden(d) == StartsWith(Basename(d.rel), ".")

\* folder_path from os.path.relpath(root, source_dir)
FolderPathOf(d) == d.rel

\* one directory of the walk: hidden directories are passed over, a
\* directory with both files has its sidecar read inside the try
FsVisit ==
    /\ script = "folders" /\ pc = "loop" /\ idx <= Len(world.disk)
    /\ LET d == world.disk[idx] IN
       IF IsHidden(d) \/ ~HasBothMarkers(d)
       THEN idx' = idx + 1 /\ UNCHANGED <<pc, cur, notebooks>>
       ELSE /\ notebooks' = Append(notebooks, d)
            /\ IF ~d.valid \/ ~Truthy(d.displayName)
               THEN idx' = idx + 1 /\ UNCHANGED <<pc, cur>>
               ELSE /\ cur' = [display_name |-> d.displayName,
                               rel_path |-> FolderPathOf(d), parent_folder_id |-> None]
                    /\ pc' = "place" /\ idx' = idx
    /\ UNCHANGED <<script, world, items, existing_folders, target_items, calls,
                   created, source_items, target_notebook_mapping, pipeline_content,
                   changes_made, has_trident_notebook, temp_files, ens, faults>>

\* matching_items = [item for item in items if item.get("displayName") == notebook_name]
MatchingItems(itemList, name) ==
    LET named(item) == item.displayName = name IN Filter(itemList, named)

\* the notebook is looked up, then its folder path is ensured; a path that
\* cannot be ensured, or a request that raises, ends the work on it
FsPlace ==
    /\ script = "folders" /\ pc = "place"
    /\ IF MatchingItems(items, cur.display_name) = <<>>
       THEN /\ pc' = "loop" /\ idx' = idx + 1
            /\ UNCHANGED <<existing_folders, created, calls, cur, faults>>
       ELSE \E resp \in Responses(cur.rel_path) :
            LET r == Ensure("folders", cur.rel_path, existing_folders, resp, created) IN
            /\ existing_folders' = r.memo
            /\ created' = r.created
            /\ faults' = faults + Failed(r.log)
            /\ calls' = calls \o r.log
            /\ cur' = [cur EXCEPT !.parent_folder_id = r.ret]
            /\ IF r.raised \/ (cur.rel_path # "" /\ ~Truthy(r.ret))
               THEN pc' = "loop" /\ idx' = idx + 1
               ELSE pc' = "move" /\ idx' = idx
    /\ UNCHANGED <<script, world, items, target_items, notebooks, source_items,
                   target_notebook_mapping, pipeline_content, changes_made,
                   has_trident_notebook, temp_files, ens>>

\* item_type.lower() for the types of the inputs
Lower(type) ==
    CASE type = "Notebook" -> "notebook"
      [] type = "Lakehouse" -> "lakehouse"
      [] type = "Folder" -> "folder"
      [] OTHER -> type

\* the item types move_item_to_folder has an endpoint for
MovableTypes == {"notebook", "dataflow", "dataset", "report", "dashboard"}

\* the loop over matching_items: one PATCH per item of a movable type,
\* until a request raises
RECURSIVE MoveAll(_, _, _, _, _, _)
MoveAll(matching, i, c, resp, log, raised) ==
    IF i > Len(matching) \/ raised THEN log
    ELSE IF ~Truthy(c.parent_folder_id) \/ Lower(matching[i].type) \notin MovableTypes
    THEN MoveAll(matching, i + 1, c, resp, log, FALSE)
    ELSE MoveAll(matching, i + 1, c, resp,
                 Append(log, Call("move", c.display_name, matching[i].id,
                                  c.parent_folder_id, {"parentFolderId"}, c.rel_path,
                                  None, resp[i])),
                 resp[i] = "net")

FsMove ==
    /\ script = "folders" /\ pc = "move"
    /\ LET matching == MatchingItems(items, cur.display_name) IN
       \E resp \in [1..Len(matching) -> Outcomes] :
           LET log == MoveAll(matching, 1, cur, resp, <<>>, FALSE) IN
           calls' = calls \o log /\ faults' = faults + Failed(log)
    /\ pc' = "loop" /\ idx' = idx + 1
    /\ UNCHANGED <<script, world, items, existing_folders, target_items, notebooks, cur,
                   created, source_items, target_notebook_mapping, pipeline_content,
                   changes_made, has_trident_notebook, temp_files, ens>>

FsFinish ==
    /\ script = "folders" /\ pc = "loop" /\ idx > Len(world.disk)
    /\ pc' = "done"
    /\ UNCHANGED <<script, world, items, existing_folders, target_items, notebooks, idx,
                   cur, calls, created, source_items, target_notebook_mapping,
                   pipeline_content, changes_made, has_trident_notebook, temp_files, ens, faults>>

-----------------------------------------------------------------------------
(* deployment-pipelines.py: the data *)

\* a decoded pipeline-content.json: a JSON object with
\* properties.activities, the empty object, or no content (None)
Content(acts) == [kind |-> "object", activities |-> acts]
EmptyObject == [kind |-> "empty", activities |-> <<>>]
NoContent == [kind |-> "none", activities |-> <<>>]

\* an activity node; notebookId and workspaceId are those of its
\* typeProperties (None when absent), inner the activities nested in it
Act(name, type, notebookId, workspaceId, inner) ==
    [name |-> name, type |-> type, notebookId |-> notebookId,
     workspaceId |-> workspaceId, inner |-> inner]

Trident(name, notebookId) == Act(name, "TridentNotebook", notebookId, "ws-1", <<>>)

\* the definitions of the source pipelines: no activity; one reference; a
\* reference, another activity and a reference to an unknown notebook; a
\* reference to Notebook B; a reference nested in a ForEach; a reference
\* without typeProperties
Definitions ==
    { Content(<<>>),
      Content(<<Trident("run A", "nb-1")>>),
      Content(<<Trident("run A", "nb-1"), Act("copy", "Copy", None, None, <<>>),
                Trident("run X", "nb-x")>>),
      Content(<<Trident("run B", "nb-2")>>),
      Content(<<Act("each", "ForEach", None, None, <<Trident("run A", "nb-1")>>),
                Trident("run B", "nb-2")>>),
      Content(<<Act("bare", "TridentNotebook", None, None, <<>>)>>) }

\* text, and its base64 form as a part's payload
JsonText(value) == [json |-> TRUE, value |-> value]
OtherText == [json |-> FALSE, value |-> NoContent]
\* what `if decoded_content` rejects: None, the empty string
NoText == [json |-> FALSE, value |-> EmptyObject]
Base64(text) == [b64 |-> TRUE, text |-> text]
NotBase64 == [b64 |-> FALSE, text |-> OtherText]

Part(path, payload) == [path |-> path, payload |-> payload]

\* what getDefinition answers for a pipeline: its parts
DefinitionOf(content) ==
    << Part(".platform", Base64(OtherText)),
       Part("pipeline-content.json", Base64(JsonText(content))) >>

\* answers that cannot be decoded: a payload that is not base64, text that
\* is not JSON, the empty object, no pipeline-content.json part
BrokenDefinitions ==
    { << Part("pipeline-content.json", NotBase64) >>,
      << Part("pipeline-content.json", Base64(OtherText)) >>,
      << Part("pipeline-content.json", Base64(JsonText(EmptyObject))) >>,
      << Part(".platform", Base64(OtherText)) >> }

\* the source workspace: both pipelines and both notebooks, or one of each
SourceWorlds ==
    { << Item("pl-1", "P1", "DataPipeline", None), Item("nb-1", "Notebook A", "Notebook", None),
         Item("pl-2", "P2", "DataPipeline", None), Item("nb-2", "Notebook B", "Notebook", None) >>,
      << Item("nb-1", "Notebook A", "Notebook", None), Item("pl-1", "P1", "DataPipeline", None) >> }

\* a listing as the workspace ws reports it
InWorkspace(itemList, ws) ==
    [i \in 1..Len(itemList) |-> [itemList[i] EXCEPT !.workspaceId = ws]]

\* the target workspace: empty; Notebook A, pipeline P1 and a notebook that
\* is named like pipeline P2; both notebooks and both pipelines; the source
\* workspace itself (target_workspace_id = source_workspace_id)
PipelineTargets ==
    { <<>>,
      << Item("nb-9", "Notebook A", "Notebook", None), Item("tp-1", "P1", "DataPipeline", None),
         Item("nb-7", "P2", "Notebook", None) >>,
      << Item("nb-9", "Notebook A", "Notebook", None), Item("nb-8", "Notebook B", "Notebook", None),
         Item("tp-1", "P1", "DataPipeline", None), Item("tp-2", "P2", "DataPipeline", None) >>,
      InWorkspace(<< Item("nb-1", "Notebook A", "Notebook", None),
                     Item("pl-1", "P1", "DataPipeline", None) >>, "ws-1") }

\* an entry of os.scandir(base_path)
Entry(name, is_dir, platform) == [name |-> name, is_dir |-> is_dir, platform |-> platform]

PipelineDisks ==
    { <<>>,
      << Entry("P1.DataPipeline", TRUE, TRUE) >>,
      << Entry("P1.DataPipeline", TRUE, TRUE), Entry("P2.DataPipeline", TRUE, FALSE) >>,
      << Entry("docs", TRUE, FALSE), Entry("P2.DataPipeline", TRUE, TRUE),
         Entry("P1.DataPipeline", FALSE, FALSE) >> }

PipelineDefs ==
    {[id \in {"pl-1", "pl-2"} |-> IF id = "pl-1" THEN d1 ELSE DefinitionOf(d2)] :
        d1 \in {DefinitionOf(c) : c \in Definitions} \cup BrokenDefinitions,
        d2 \in {Content(<<Trident("run A", "nb-1")>>), Content(<<Trident("run B", "nb-2")>>)}}

-----------------------------------------------------------------------------
(* deployment-pipelines.py: the functions *)

\* fetch_workspace_items: RequestException (a status, a failed connection)
\* is caught and gives []
fetch_workspace_items(value, r) == IF r = "ok" THEN value ELSE <<>>

\* find_pipeline_by_name: the id of the first DataPipeline of that name
find_pipeline_by_name(itemList, pipeline_name) ==
    LET hit(item) == item.type = "DataPipeline" /\ item.displayName = pipeline_name
        found == Filter(itemList, hit)
    IN  IF found = <<>> THEN None ELSE found[1].id

\* decode_base64: None when the payload does not decode
decode_base64(payload) == IF payload.b64 THEN payload.text ELSE NoText

\* get_pipeline_folders
get_pipeline_folders(disk) ==
    LET keep(f) == f.is_dir /\ EndsWith(f.name, ".DataPipeline") IN Filter(disk, keep)

\* get_pipeline_name_from_folder
get_pipeline_name_from_folder(folder) == StripSuffix(folder.name, ".DataPipeline")

\* target_notebook_mapping of update_pipeline_files
TargetNotebookMapping(target) ==
    LET pair(item) == <<item.id, item.workspaceId>>
        found == Filter(target, IsNotebook)
    IN  DictOf(found, DisplayNameOf, pair, Len(found))

\* source_notebook_mapping of update_pipeline_files
SourceNotebookMapping(source) ==
    LET found == Filter(source, IsNotebook)
    IN  DictOf(found, IdOf, DisplayNameOf, Len(found))

\* lines 185-190: the first pipeline-content.json part, decoded
\* ("raise" when json.loads raises)
ExtractContent(parts) ==
    LET isContent(part) == part.path = "pipeline-content.json"
        found == Filter(parts, isContent)
    IN  IF found = <<>> THEN [raised |-> FALSE, content |-> NoContent]
        ELSE LET decoded == decode_base64(found[1].payload) IN
             IF decoded = NoText THEN [raised |-> FALSE, content |-> NoContent]
             ELSE IF ~decoded.json THEN [raised |-> TRUE, content |-> NoContent]
             ELSE [raised |-> FALSE, content |-> decoded.value]

\* line 214: both resolutions succeed
ResolvedName(activity, source_map, target_map) ==
    LET source_notebook_name == Get(source_map, activity.notebookId)
    IN  IF Truthy(source_notebook_name) /\ source_notebook_name \in DOMAIN target_map
        THEN source_notebook_name ELSE None

\* mutants of the overwrite: the workspace id is left; an unresolved node
\* loses its reference
remap_activity_id_only(activity, source_map, target_map) ==
    LET name == ResolvedName(activity, source_map, target_map) IN
    IF activity.type = "TridentNotebook" /\ name # None
    THEN [activity EXCEPT !.notebookId = target_map[name][1]]
    ELSE activity

remap_activity_clobber(activity, source_map, target_map) ==
    LET name == ResolvedName(activity, source_map, target_map) IN
    IF activity.type = "TridentNotebook"
    THEN IF name # None
         THEN [activity EXCEPT !.notebookId = target_map[name][1],
                               !.workspaceId = target_map[name][2]]
         ELSE [activity EXCEPT !.notebookId = None]
    ELSE activity

\* a mutant of the overwrite: one field a pass, the workspace id first
remap_activity_one_field(activity, source_map, target_map) ==
    LET name == ResolvedName(activity, source_map, target_map) IN
    IF activity.type = "TridentNotebook" /\ name # None
    THEN IF activity.workspaceId # target_map[name][2]
         THEN [activity EXCEPT !.workspaceId = target_map[name][2]]
         ELSE [activity EXCEPT !.notebookId = target_map[name][1]]
    ELSE activity

\* lines 209-218 for one activity of properties.activities
remap_activity(activity, source_map, target_map) ==
    LET name == ResolvedName(activity, source_map, target_map) IN
    IF activity.type = "TridentNotebook" /\ name # None
    THEN [activity EXCEPT !.notebookId = target_map[name][1],
                          !.workspaceId = target_map[name][2]]
    ELSE activity

\* the loop of lines 208-228 over properties.activities
remap_activities(acts, source_map, target_map) ==
    [i \in 1..Len(acts) |-> remap_activity(acts[i], source_map, target_map)]

\* has_trident_notebook after the loop
HasTrident(acts) == \E i \in 1..Len(acts) : acts[i].type = "TridentNotebook"

\* the mutant: any reference node sets the flag
changes_made_any_reference(acts, source_map, target_map) == HasTrident(acts)

\* changes_made after the loop
ChangesMade(acts, source_map, target_map) ==
    \E i \in 1..Len(acts) :
        /\ acts[i].type = "TridentNotebook"
        /\ ResolvedName(acts[i], source_map, target_map) # None

\* the mutant: the name alone decides, whatever the type of the item
existing_pipeline_any_type(itemList, pipeline_name) ==
    LET hit(item) == item.displayName = pipeline_name
        found == Filter(itemList, hit)
    IN  IF found = <<>> THEN <<>> ELSE <<found[1]>>

\* create_or_update_pipeline: existing_pipeline, <<>> standing for None
existing_pipeline(itemList, pipeline_name) ==
    LET hit(item) == item.type = "DataPipeline" /\ item.displayName = pipeline_name
        found == Filter(itemList, hit)
    IN  IF found = <<>> THEN <<>> ELSE <<found[1]>>

\* create_or_update_pipeline: the request
PipelineRequest(itemList, pipeline_name, folder, r) ==
    LET existing == existing_pipeline(itemList, pipeline_name) IN
    IF existing # <<>>
    THEN Call("updateItem", pipeline_name, existing[1].id, None, {"definition"},
              folder, None, r)
    ELSE Call("createItem", pipeline_name, None, None,
              {"definition", "type", "displayName", "description"}, folder, None, r)

-----------------------------------------------------------------------------
(* deployment-pipelines.py: update_pipeline_files *)

PipeFetchSource ==
    /\ script = "pipelines" /\ pc = "start"
    /\ \E r \in Outcomes :
         /\ source_items' = fetch_workspace_items(world.source, r)
         /\ faults' = faults + Fault(r)
    /\ pc' = "fetch_target"
    /\ UNCHANGED <<script, world, items, existing_folders, target_items, notebooks, idx,
                   cur, calls, created, target_notebook_mapping, pipeline_content,
                   changes_made, has_trident_notebook, temp_files, ens>>

\* lines 148-160: the target inventory, the mapping, the pipeline folders
PipeFetchTarget ==
    /\ script = "pipelines" /\ pc = "fetch_target"
    /\ \E r \in Outcomes :
         /\ target_notebook_mapping' =
                TargetNotebookMapping(fetch_workspace_items(world.target, r))
         /\ faults' = faults + Fault(r)
    /\ notebooks' = get_pipeline_folders(world.disk)
    /\ pc' = "loop"
    /\ UNCHANGED <<script, world, items, existing_folders, target_items, idx, cur, calls,
                   created, source_items, pipeline_content, changes_made,
                   has_trident_notebook, temp_files, ens>>

\* lines 162-175: the pipeline of the folder is looked up in the source
PipeSelect ==
    /\ script = "pipelines" /\ pc = "loop" /\ idx <= Len(notebooks)
    /\ LET pipeline_name == get_pipeline_name_from_folder(notebooks[idx])
           pipeline_id == find_pipeline_by_name(source_items, pipeline_name)
       IN  IF ~Truthy(pipeline_id) THEN idx' = idx + 1 /\ UNCHANGED <<pc, cur>>
           ELSE /\ cur' = [folder |-> notebooks[idx].name, pipeline_name |-> pipeline_name,
                           pipeline_id |-> pipeline_id,
                           platform |-> notebooks[idx].platform]
                /\ pc' = "get_def" /\ idx' = idx
    /\ UNCHANGED <<script, world, items, existing_folders, target_items, notebooks, calls,
                   created, source_items, target_notebook_mapping, pipeline_content,
                   changes_made, has_trident_notebook, temp_files, ens, faults>>

\* lines 177-194: the definition is fetched and its content decoded
PipeGetDefinition ==
    /\ script = "pipelines" /\ pc = "get_def"
    /\ \E r \in Outcomes :
         LET parts == IF r = "ok" THEN world.defs[cur.pipeline_id] ELSE <<>>
             got == ExtractContent(parts)
         IN  /\ faults' = faults + Fault(r)
             /\ IF got.raised THEN pc' = "aborted" /\ UNCHANGED <<idx, pipeline_content>>
                ELSE IF got.content.kind # "object"
                THEN pc' = "loop" /\ idx' = idx + 1 /\ pipeline_content' = got.content
                ELSE pc' = "remap" /\ idx' = idx /\ pipeline_content' = got.content
    /\ UNCHANGED <<script, world, items, existing_folders, target_items, notebooks, cur,
                   calls, created, source_items, target_notebook_mapping, changes_made,
                   has_trident_notebook, temp_files, ens>>

\* lines 196-236: the reference remap
PipeRemap ==
    /\ script = "pipelines" /\ pc = "remap"
    /\ LET source_notebook_mapping == SourceNotebookMapping(source_items)
           acts == pipeline_content.activities
       IN  /\ pipeline_content' =
                 Content(remap_activities(acts, source_notebook_mapping,
                                          target_notebook_mapping))
           /\ changes_made' =
                 ChangesMade(acts, source_notebook_mapping, target_notebook_mapping)
           /\ has_trident_notebook' = HasTrident(acts)
    /\ pc' = "stage"
    /\ UNCHANGED <<script, world, items, existing_folders, target_items, notebooks, idx,
                   cur, calls, created, source_items, target_notebook_mapping,
                   temp_files, ens, faults>>

\* what the file system does to temp.json: written and read; not written
\* (save_json caught an error); written but not read
StageOutcomes == {"ok", "not_saved", "not_read"}

\* lines 238-246: temp.json is written and encoded; without an encoding the
\* pipeline is left
PipeStage ==
    /\ script = "pipelines" /\ pc = "stage"
    /\ \E fs \in StageOutcomes :
         /\ faults' = faults + Fault(fs)
         /\ temp_files' = IF fs = "not_saved" THEN temp_files
                          ELSE temp_files \cup {cur.folder}
         /\ IF fs = "ok" THEN pc' = "deploy" /\ idx' = idx
            ELSE pc' = "loop" /\ idx' = idx + 1
    /\ UNCHANGED <<script, world, items, existing_folders, target_items, notebooks, cur,
                   calls, created, source_items, target_notebook_mapping,
                   pipeline_content, changes_made, has_trident_notebook, ens>>

\* what os.remove does to temp.json: removed; an error that is caught and
\* reported, the file stays
RemoveOutcomes == {"ok", "not_removed"}

\* lines 248-271: the payload, create_or_update_pipeline (which lists the
\* target workspace itself), the removal of temp.json
PipeDeploy ==
    /\ script = "pipelines" /\ pc = "deploy"
    /\ \E listed \in Outcomes : \E r \in Outcomes : \E removed \in RemoveOutcomes :
         /\ faults' = faults + Fault(listed) + Fault(r) + Fault(removed)
         /\ items' = fetch_workspace_items(world.target, listed)
         /\ calls' = Append(calls, PipelineRequest(items', cur.pipeline_name,
                                                   cur.folder, r))
         /\ temp_files' = IF removed = "ok" THEN temp_files \ {cur.folder}
                          ELSE temp_files
    /\ pc' = "loop" /\ idx' = idx + 1
    /\ UNCHANGED <<script, world, existing_folders, target_items, notebooks, cur,
                   created, source_items, target_notebook_mapping, pipeline_content,
                   changes_made, has_trident_notebook, ens>>

PipeFinish ==
    /\ script = "pipelines" /\ pc = "loop" /\ idx > Len(notebooks)
    /\ pc' = "done"
    /\ UNCHANGED <<script, world, items, existing_folders, target_items, notebooks, idx,
                   cur, calls, created, source_items, target_notebook_mapping,
                   pipeline_content, changes_made, has_trident_notebook, temp_files, ens, faults>>

-----------------------------------------------------------------------------
(* The ensurers alone: up to MaxEnsureCalls calls, any path each time, on   *)
(* the memo the script builds from the target workspace's folder listing.   *)

MaxEnsureCalls == 2

EnsurePaths == {"", "a", "b", "a/b", "a//b", "/a"}

Idle ==
    /\ items = <<>> /\ target_items = EmptyDict /\ notebooks = <<>> /\ idx = 1
    /\ cur = None /\ calls = <<>> /\ created = 0 /\ source_items = <<>>
    /\ target_notebook_mapping = EmptyDict /\ pipeline_content = NoContent
    /\ changes_made = FALSE /\ has_trident_notebook = FALSE /\ temp_files = {}
    /\ faults = 0

InitEnsure ==
    /\ script \in {"folders", "notebooks"}
    /\ pc = "ensure"
    /\ \E t \in TargetWorlds : world = [disk |-> <<>>, target |-> t, source |-> <<>>, defs |-> EmptyDict]
    /\ existing_folders = FolderDict(world.target)
    /\ ens = <<>>
    /\ Idle

EnsureCall ==
    /\ pc = "ensure"
    /\ Len(ens) < MaxEnsureCalls
    /\ \E path \in EnsurePaths : \E resp \in Responses(path) :
         LET r == Ensure(script, path, existing_folders, resp, created) IN
         /\ existing_folders' = r.memo
         /\ created' = r.created
         /\ faults' = faults + Failed(r.log)
         /\ calls' = calls \o r.log
         /\ ens' = Append(ens, [path |-> path, ret |-> r.ret, raised |-> r.raised,
                                log |-> r.log])
    /\ UNCHANGED <<script, pc, world, items, target_items, notebooks, idx, cur,
                   source_items, target_notebook_mapping, pipeline_content,
                   changes_made, has_trident_notebook, temp_files>>

NextEnsure == EnsureCall

SpecEnsure == InitEnsure /\ [][NextEnsure]_vars

-----------------------------------------------------------------------------
(* One run of one script *)

Init ==
    /\ script \in {"pipelines", "notebooks", "folders"}
    /\ pc = "start"
    /\ IF script = "pipelines"
       THEN \E d \in PipelineDisks : \E t \in PipelineTargets :
            \E s \in SourceWorlds : \E defs \in PipelineDefs :
                world = [disk |-> d, target |-> t, source |-> s, defs |-> defs]
       ELSE \E d \in Disks : \E t \in TargetWorlds :
                world = [disk |-> d, target |-> t, source |-> <<>>, defs |-> EmptyDict]
    /\ existing_folders = EmptyDict
    /\ ens = <<>>
    /\ Idle

Next ==
    \/ NbFetchItems \/ NbDiscover \/ NbFetchFolders \/ NbReadMeta \/ NbEnsureFolders
    \/ NbUpsert \/ NbFinish
    \/ FsListItems \/ FsListFolders \/ FsVisit \/ FsPlace \/ FsMove \/ FsFinish
    \/ PipeFetchSource \/ PipeFetchTarget \/ PipeSelect \/ PipeGetDefinition
    \/ PipeRemap \/ PipeStage \/ PipeDeploy \/ PipeFinish

Spec == Init /\ [][Next]_vars

-----------------------------------------------------------------------------
(* Claims about the ensurers, checked under SpecEnsure *)

\* every creation request of an ensurer call was answered with success
AllCreated(e) == \A j \in 1..Len(e.log) : e.log[j].res = "ok"

\* two calls in a row with the same path (the memo is the one the first left)
Repeated(k) == k + 1 <= Len(ens) /\ ens[k + 1].path = ens[k].path

RemoteChild(parent, name) ==
    {world.target[j].id : j \in {j \in 1..Len(world.target) :
        /\ world.target[j].type = "Folder"
        /\ world.target[j].displayName = name
        /\ world.target[j].parentFolderId = parent}}

\* the folders of the target workspace found at a path, segment by segment
RECURSIVE RemoteAt(_, _, _)
RemoteAt(parts, i, parents) ==
    IF i > Len(parts) THEN parents
    ELSE IF parts[i] = "" THEN RemoteAt(parts, i + 1, parents)
    ELSE RemoteAt(parts, i + 1, UNION {RemoteChild(p, parts[i]) : p \in parents})

\* C6: a path of which every prefix exists in the target workspace when the
\* run starts gets no creation request, and the identifier returned is the
\* existing leaf folder's
C6_NoCreationForExistingPath ==
    Len(ens) >= 1 /\ ens[1].path # "" =>
        LET leaf == RemoteAt(Split(ens[1].path, Sep), 1, {None}) IN
        leaf # {} => ens[1].log = <<>> /\ ens[1].ret \in leaf

-----------------------------------------------------------------------------
(* Claims about the runs, checked under Spec *)

IsUpsert(c) == c.op \in {"createItem", "updateItem"}

\* this step issued exactly one request more
IssuesOne == Len(calls') = Len(calls) + 1

\* the identifiers a listing holds for the items of a type with a name
IdsOf(listing, type, name) ==
    {listing[j].id : j \in {j \in 1..Len(listing) :
        listing[j].type = type /\ listing[j].displayName = name}}

\* the target inventory the upsert of the step consulted: the listing
\* create_or_update_pipeline fetched in this step; the listing fetch_items
\* was given when the run began
ConsultedIds(name) ==
    IF script = "pipelines" THEN IdsOf(items', "DataPipeline", name)
    ELSE IdsOf(world.target, "Notebook", name)

\* C1: the upsert of an artifact whose name the target inventory of its
\* type lacks is a creation request and no update; when the inventory has
\* the name it is an update of the identifier held for the name, and no
\* creation
C1_UpsertFollowsInventory ==
    [][ (pc \in {"upsert", "deploy"}) =>
          /\ IssuesOne
          /\ LET c == calls'[Len(calls')]
                 name == IF script = "pipelines" THEN cur.pipeline_name
                         ELSE cur.display_name
             IN  /\ IsUpsert(c) /\ c.name = name
                 /\ ConsultedIds(name) = {} => c.op = "createItem" /\ c.id = None
                 /\ ConsultedIds(name) # {} =>
                        c.op = "updateItem" /\ c.id \in ConsultedIds(name) ]_vars

\* C1's case: one run that updated P1 and created P2, whose name the target
\* workspace holds for a notebook only
C1_Witness ==
    /\ script = "pipelines"
    /\ \E i, j \in 1..Len(calls) :
         /\ calls[i].op = "updateItem" /\ calls[i].name = "P1" /\ calls[i].id = "tp-1"
         /\ calls[j].op = "createItem" /\ calls[j].name = "P2"
    /\ IdsOf(items, "Notebook", "P2") # {}

\* an activity whose reference resolves through both mappings
Resolves(a, source_map, target_map) ==
    /\ a.type = "TridentNotebook"
    /\ a.notebookId \in DOMAIN source_map
    /\ source_map[a.notebookId] \in DOMAIN target_map

\* the remap step, from the decoded definition to the one that is staged
RemapStep == pc = "remap" /\ pc' = "stage"

\* C2: after the remap a node of properties.activities that resolves holds
\* the identifier pair of the target mapping, and the flag is set
C2_ResolvedNodeRewritten ==
    [][ RemapStep =>
          LET src == SourceNotebookMapping(source_items)
              tgt == target_notebook_mapping
              before == pipeline_content.activities
              after == pipeline_content'.activities
          IN  \A i \in 1..Len(before) :
                Resolves(before[i], src, tgt) =>
                  /\ after[i].notebookId = tgt[src[before[i].notebookId]][1]
                  /\ after[i].workspaceId = tgt[src[before[i].notebookId]][2]
                  /\ changes_made' ]_vars

\* C2's case: nb-1 is Notebook A, which the target holds as (nb-9, ws-2)
C2_Witness ==
    /\ script = "pipelines" /\ pc = "stage" /\ changes_made
    /\ Len(pipeline_content.activities) >= 1
    /\ pipeline_content.activities[1].notebookId = "nb-9"
    /\ pipeline_content.activities[1].workspaceId = "ws-2"

\* C3: a reference node that does not resolve is left as it was, sets no
\* flag by itself, and the pipeline goes on to staging and to its upsert
C3_UnresolvedNodeUntouched ==
    [][ /\ RemapStep =>
          LET src == SourceNotebookMapping(source_items)
              tgt == target_notebook_mapping
              before == pipeline_content.activities
              after == pipeline_content'.activities
          IN  /\ \A i \in 1..Len(before) :
                   before[i].type = "TridentNotebook" /\ ~Resolves(before[i], src, tgt)
                       => after[i] = before[i]
              /\ (\A i \in 1..Len(before) : ~Resolves(before[i], src, tgt))
                     => ~changes_made'
        /\ pc = "remap" => pc' = "stage" /\ idx' = idx
        /\ pc = "deploy" => IssuesOne /\ calls'[Len(calls')].name = cur.pipeline_name
      ]_vars

\* C3's case: a pipeline whose reference nb-1 found no target was deployed
\* with the reference as it was
C3_Witness ==
    /\ script = "pipelines" /\ pc = "loop" /\ Len(calls) >= 1
    /\ calls[Len(calls)].name = cur.pipeline_name
    /\ has_trident_notebook /\ ~changes_made
    /\ pipeline_content.activities[1].type = "TridentNotebook"
    /\ pipeline_content.activities[1].notebookId = "nb-1"
    /\ pipeline_content.activities[1].workspaceId = "ws-1"

\* C4: the remap changes nothing but the two reference fields of nodes that
\* resolve; when none resolves the staged definition is the decoded one and
\* the flag stays unset
C4_RemapFrame ==
    [][ RemapStep =>
          LET src == SourceNotebookMapping(source_items)
              tgt == target_notebook_mapping
              before == pipeline_content.activities
              after == pipeline_content'.activities
          IN  /\ pipeline_content'.kind = pipeline_content.kind
              /\ Len(after) = Len(before)
              /\ \A i \in 1..Len(before) :
                   /\ after[i].name = before[i].name
                   /\ after[i].type = before[i].type
                   /\ after[i].inner = before[i].inner
                   /\ ~Resolves(before[i], src, tgt) => after[i] = before[i]
              /\ (\A i \in 1..Len(before) : ~Resolves(before[i], src, tgt)) =>
                     pipeline_content' = pipeline_content /\ ~changes_made' ]_vars

\* C4's case: a definition with references, none of which resolves, staged
\* as it was decoded
C4_Witness ==
    /\ script = "pipelines" /\ pc = "stage"
    /\ has_trident_notebook /\ ~changes_made
    /\ pipeline_content = world.defs[cur.pipeline_id][2].payload.text.value

\* C7: after a folder creation that failed, no further request is issued
\* for the path it was for: no creation, no move, no create, no update
C7_FailedPathIsSkipped ==
    \A i, j \in 1..Len(calls) :
        i < j /\ calls[i].op = "createFolder" /\ calls[i].res # "ok"
            => calls[j].path # calls[i].path

\* C8: a discovered directory holds both marker files and its name does
\* not start with "."
C8_DiscoverySkipsHidden ==
    script \in {"notebooks", "folders"} =>
        \A i \in 1..Len(notebooks) :
            HasBothMarkers(notebooks[i]) /\ ~IsHidden(notebooks[i])

\* the artifacts a script finds on its disk, by name
ArtifactNames ==
    IF script = "pipelines"
    THEN {StripSuffix(world.disk[i].name, ".DataPipeline") :
             i \in {i \in 1..Len(world.disk) :
                 /\ world.disk[i].is_dir
                 /\ EndsWith(world.disk[i].name, ".DataPipeline")}}
    ELSE {world.disk[i].displayName :
             i \in {i \in 1..Len(world.disk) :
                 /\ HasBothMarkers(world.disk[i]) /\ world.disk[i].valid
                 /\ world.disk[i].displayName # None}}

\* every artifact of the disk can be read: the sidecars are JSON; the
\* source workspace has the pipelines and their definitions decode
Readable ==
    IF script = "pipelines"
    THEN \A n \in ArtifactNames :
            /\ IdsOf(world.source, "DataPipeline", n) # {}
            /\ \A id \in IdsOf(world.source, "DataPipeline", n) :
                   ExtractContent(world.defs[id]).content.kind = "object"
    ELSE \A i \in 1..Len(world.disk) : world.disk[i].valid

ItemType == IF script = "pipelines" THEN "DataPipeline" ELSE "Notebook"

Count(op) == Cardinality({i \in 1..Len(calls) : calls[i].op = op})

\* C9: a run over two artifacts, one named in the target inventory and one
\* not, in which nothing failed, issues one update and one creation, and the
\* creation's body has a display-name key and a type key that the update's
\* body has not
C9_OneUpdateOneCreate ==
    /\ script \in {"pipelines", "notebooks"} /\ pc = "done" /\ faults = 0
    /\ Readable /\ Cardinality(ArtifactNames) = 2
    /\ Cardinality({n \in ArtifactNames : IdsOf(world.target, ItemType, n) # {}}) = 1
    => /\ Count("updateItem") = 1 /\ Count("createItem") = 1
       /\ \A i \in 1..Len(calls) :
            /\ calls[i].op = "createItem" =>
                   {"displayName", "type"} \subseteq calls[i].fields
            /\ calls[i].op = "updateItem" =>
                   {"displayName", "type"} \cap calls[i].fields = {}

\* the positions at which a script lists a workspace
FetchPositions == {"start", "fetch_target", "fetch_folders", "list_folders"}

\* what the listing of a step left in the run's inventories
FetchedNothing ==
    CASE script = "notebooks" /\ pc = "start" -> target_items' = EmptyDict
      [] script = "notebooks" -> existing_folders' = EmptyDict
      [] script = "folders" /\ pc = "start" -> items' = <<>>
      [] script = "folders" -> existing_folders' = EmptyDict
      [] pc = "start" -> source_items' = <<>>
      [] OTHER -> target_notebook_mapping' = EmptyDict

\* C10: a listing that fails gives an empty inventory and the run goes on
C10_FailedFetchGivesEmpty ==
    [][ (pc \in FetchPositions) /\ faults' > faults =>
          pc' # "aborted" /\ FetchedNothing ]_vars

-----------------------------------------------------------------------------
(* Claims about the batch, checked under Spec *)

\* the positions of a run inside the loop over the discovered artifacts
LoopPositions ==
    {"loop", "folders", "upsert", "place", "move", "get_def", "remap", "stage", "deploy"}

\* the list a script's loop goes through
Discovered == IF script = "folders" THEN world.disk ELSE notebooks

\* C11: once the loop over the artifacts has begun, no step ends the run
\* early: whatever fails on one artifact, the run goes on, and it ends only
\* when the loop has passed the last discovered artifact
C11_FailureDoesNotAbortBatch ==
    [][ (pc \in LoopPositions) =>
          /\ pc' # "aborted"
          /\ (pc' = "done" => idx' > Len(Discovered)) ]_vars

\* the run is between two pipelines, or over
BetweenPipelines == script = "pipelines" /\ pc \in {"loop", "done", "aborted"}

\* C12: whenever the work on a pipeline has ended, no folder holds a
\* temp.json: every staging file written so far has been removed
C12_TempFilesRemoved == BetweenPipelines => temp_files = {}

\* the two reference fields of a node
Reference(a) == <<a.notebookId, a.workspaceId>>

\* C13: the remap applied to the definition it has just produced, with the
\* same two mappings, leaves the reference of every TridentNotebook node,
\* nested ones included, as the first application left it
C13_RemapIdempotent ==
    [][ RemapStep =>
          LET src == SourceNotebookMapping(source_items)
              tgt == target_notebook_mapping
              once == pipeline_content'.activities
              twice == remap_activities(once, src, tgt)
          IN  /\ Len(twice) = Len(once)
              /\ \A i \in 1..Len(once) :
                   /\ once[i].type = "TridentNotebook" =>
                          Reference(twice[i]) = Reference(once[i])
                   /\ twice[i].inner = once[i].inner ]_vars

\* C13's case: a remapped node whose new identifier resolves again (the
\* target lists Notebook A under the identifier the source lists it under),
\* next to one remapped to an identifier the source does not know
C13_Witness ==
    /\ script = "pipelines" /\ pc = "stage" /\ changes_made
    /\ \E i \in 1..Len(pipeline_content.activities) :
         Resolves(pipeline_content.activities[i],
                  SourceNotebookMapping(source_items), target_notebook_mapping)

\* the identifier pair the target mapping holds for a node that resolves
TargetPair(a, source_map, target_map) == target_map[source_map[a.notebookId]]

\* C14: after the remap every TridentNotebook node that resolves holds the
\* target's identifier pair, be it a node of properties.activities or a
\* node nested in one of them
C14_NestedNodesRewritten ==
    [][ RemapStep =>
          LET src == SourceNotebookMapping(source_items)
              tgt == target_notebook_mapping
              before == pipeline_content.activities
              after == pipeline_content'.activities
          IN  \A i \in 1..Len(before) :
                /\ Resolves(before[i], src, tgt) =>
                       Reference(after[i]) = TargetPair(before[i], src, tgt)
                /\ \A j \in 1..Len(before[i].inner) :
                       Resolves(before[i].inner[j], src, tgt) =>
                           Reference(after[i].inner[j]) =
                               TargetPair(before[i].inner[j], src, tgt) ]_vars

-----------------------------------------------------------------------------
(* Claims about the order of the folder calls, checked under Spec *)

\* the requests a step issues
NewCalls == SubSeq(calls', Len(calls) + 1, Len(calls'))

\* how many segments a memo key has, and the key of the prefix before it
Depth(key) == Len(Split(key, Sep))
ParentKey(key) ==
    LET parts == Split(key, Sep) IN JoinWith(SubSeq(parts, 1, Len(parts) - 1), Sep)

\* the memo keys of a path: the path's prefixes, the path itself the last
PathKeys(path) ==
    LET parts == Split(path, Sep)
    IN  {JoinWith(SubSeq(parts, 1, n), Sep) : n \in 1..Len(parts)}

\* a request that puts an artifact into a folder
Places(c) ==
    c.op \in {"move", "createItem", "updateItem"} /\ "parentFolderId" \in c.fields

\* C15: the creation requests of a step are for prefixes of the path in
\* work, shorter prefix first; one for a segment below the top level has as
\* parentFolderId the identifier the memo holds for the prefix before it,
\* and all shorter prefixes are in the memo; a request that places an
\* artifact is issued when the memo already holds every prefix of its
\* path, and it names the identifier held for the whole path
C15_FolderCallsOrdered ==
    [][ \A k \in 1..Len(NewCalls) :
          LET c == NewCalls[k] IN
          /\ c.op = "createFolder" =>
               /\ c.key \in PathKeys(c.path)
               /\ \A j \in 1..(k - 1) :
                      NewCalls[j].op = "createFolder" /\ Depth(NewCalls[j].key) < Depth(c.key)
               /\ PathKeys(c.key) \ {c.key} \subseteq DOMAIN existing_folders'
               /\ IF Depth(c.key) > 1
                  THEN /\ "parentFolderId" \in c.fields
                       /\ c.parent = existing_folders'[ParentKey(c.key)]
                  ELSE c.parent = None
          /\ Places(c) =>
               /\ PathKeys(c.path) \subseteq DOMAIN existing_folders
               /\ c.parent = existing_folders[c.path] ]_vars

\* C15's case: folder b was created under the folder recorded for a, and
\* then an artifact of a/b was placed into the folder recorded for a/b
C15_Witness ==
    \E i, j \in 1..Len(calls) :
        /\ i < j
        /\ calls[i].op = "createFolder" /\ calls[i].key = "a/b" /\ calls[i].res = "ok"
        /\ calls[i].parent = existing_folders["a"]
        /\ Places(calls[j]) /\ calls[j].path = "a/b"
        /\ calls[j].parent = existing_folders["a/b"]

-----------------------------------------------------------------------------
(* Claims about the course of one artifact, checked under Spec *)

\* the local path the requests for the i-th discovered artifact carry
ArtifactPath(i) ==
    IF script = "pipelines" THEN notebooks[i].name ELSE notebooks[i].rel

\* the create-or-update requests of a log that are for the i-th artifact
UpsertsFor(log, list, i) ==
    {k \in 1..Len(log) :
        /\ IsUpsert(log[k])
        /\ log[k].path = (IF script = "pipelines" THEN list[i].name ELSE list[i].rel)}

\* the positions at which a run is over
Ended == {"done", "aborted"}

\* C16: in a run of the pipeline or the notebook script the loop never
\* goes back; every request a step issues is for the artifact in work, a
\* create-or-update only at the upsert position that follows the remap or
\* its skipping; no artifact gets more than one create-or-update request;
\* and when the run is over the loop has passed every discovered artifact,
\* so each one is Created, Updated or Failed
C16_ArtifactLifecycle ==
    [][ (script \in {"pipelines", "notebooks"}) =>
          /\ idx' >= idx
          /\ \A k \in 1..Len(NewCalls) :
                /\ idx <= Len(notebooks)
                /\ NewCalls[k].path = ArtifactPath(idx)
                /\ IsUpsert(NewCalls[k]) => pc \in {"deploy", "upsert"} /\ idx' = idx + 1
          /\ \A i \in 1..Len(notebooks') :
                Cardinality(UpsertsFor(calls', notebooks', i)) <= 1
          /\ (pc' \in Ended => idx' > Len(notebooks')) ]_vars

====
